---- MODULE Spec2Model ----
(***************************************************************************)
(* Model of the blog application in src/main.py: the users, blog_posts and *)
(* comments tables, the per-browser login session, and one action per      *)
(* request handler (register, login, logout, show_post, new_post,          *)
(* edit_post, delete_post).  Requests are serialised: a handler runs from   *)
(* its first query to its response as one step, with at most one commit.   *)
(* An exception that no handler catches is the response "error500".        *)
(***************************************************************************)
EXTENDS Integers, Sequences, FiniteSets, TLC

VARIABLES users, posts, comments, session, req, resp

vars == <<users, posts, comments, session, req, resp>>

tables == <<users, posts, comments>>

(* ---- bounds of the model ---- *)
MaxPostId == 2
MaxComments == 1

(* ---- input domains ---- *)
Clients == {"c1"}
Names == {"n"}
Emails == {"a@x", "b@x"}
Passwords == {"pw1", "pw2"}
Salts == {"s1"}
(* the password each account holder registers with; login attempts try any *)
OwnPassword == [e \in Emails |-> IF e = "a@x" THEN "pw1" ELSE "pw2"]
PostForms ==
    {[title |-> "t1", subtitle |-> "sub1", body |-> "body1", img_url |-> "img1"],
     [title |-> "t2", subtitle |-> "sub2", body |-> "body2", img_url |-> "img2"],
     [title |-> "t1", subtitle |-> "sub2", body |-> "body2", img_url |-> "img2"]}
Dates == {"d1", "d2"}
Texts == {"hi"}
PostIds == 1..MaxPostId

(* ---- program constants and sentinels ---- *)
AdminId == 1
Anonymous == 0
NULL == 0

(* faulty variant: the login check is dropped *)
IsAuthenticated_Always(c) == TRUE

(* flask_login AnonymousUserMixin / user_loader: the session cookie holds a user id *)
IsAuthenticated(c) == session[c] # Anonymous /\ session[c] \in DOMAIN users

(* faulty variant: the gate only asks for a logged-in user *)
IsAdmin_AnyUser(c) == IsAuthenticated(c)

(* admin_only: passes iff authenticated and current_user.id == 1 *)
IsAdmin(c) == IsAuthenticated(c) /\ session[c] = AdminId

(* werkzeug generate_password_hash: salted one-way digest, never the plaintext *)
GeneratePasswordHash(password, salt) ==
    [method |-> "pbkdf2:sha256", salt |-> salt, digest |-> <<salt, password>>]

(* faulty variant: any password verifies *)
CheckPasswordHash_Always(pwhash, password) == TRUE

(* werkzeug check_password_hash: recompute the digest with the stored salt *)
CheckPasswordHash(pwhash, password) == pwhash.digest = <<pwhash.salt, password>>

(* faulty variant: the email column is not unique *)
EmailTaken_Never(email) == FALSE

(* users.email unique=True: the insert raises IntegrityError *)
EmailTaken(email) == \E i \in DOMAIN users : users[i].email = email

(* blog_posts.title unique=True: a row other than `self` already has the title *)
TitleTaken(title, self) ==
    \E i \in DOMAIN posts : i # self /\ posts[i].title = title

(* User.query.filter_by(email=email).first(): the user's id, or Anonymous for None *)
FindUserByEmail(email) ==
    IF EmailTaken(email)
    THEN CHOOSE i \in DOMAIN users : users[i].email = email
    ELSE Anonymous

(* fields of CreatePostForm that populate_obj copies onto the post *)
CreatePostFormFields == {"title", "subtitle", "body", "img_url"}

(* faulty variant: the subtitle is not copied *)
PopulateObj_KeepsSubtitle(post, form) ==
    [f \in DOMAIN post |->
        IF f \in CreatePostFormFields \ {"subtitle"} THEN form[f] ELSE post[f]]

(* edit_form.populate_obj(post): every form field overwrites the attribute *)
PopulateObj(post, form) ==
    [f \in DOMAIN post |-> IF f \in CreatePostFormFields THEN form[f] ELSE post[f]]

SetMax(S) == CHOOSE m \in S : \A x \in S : x <= m

(* SQLite INTEGER PRIMARY KEY without AUTOINCREMENT: largest rowid plus one *)
NextPostId == IF DOMAIN posts = {} THEN 1 ELSE SetMax(DOMAIN posts) + 1

Response(status, notice) == [status |-> status, notice |-> notice]

Init ==
    /\ users = <<>>
    /\ posts = <<>>
    /\ comments = <<>>
    /\ session = [c \in Clients |-> Anonymous]
    /\ req = [kind |-> "none"]
    /\ resp = Response("none", "")

(* register(): lines 224-250 *)
Register(c, submitted, name, email, password, salt) ==
    /\ req' = IF submitted
              THEN [kind |-> "register", client |-> c, submitted |-> TRUE,
                    email |-> email]
              ELSE [kind |-> "register", client |-> c, submitted |-> FALSE]
    /\ UNCHANGED <<posts, comments>>
    /\ IF ~submitted
       THEN /\ resp' = Response("render", "")
            /\ UNCHANGED <<users, session>>
       ELSE IF EmailTaken(email)
       THEN /\ resp' = Response("redirect_login", "Email already exists")
            /\ UNCHANGED <<users, session>>
       ELSE /\ users' = Append(users, [id |-> Len(users) + 1, name |-> name,
                                       email |-> email,
                                       password |-> GeneratePasswordHash(password, salt)])
            /\ session' = [session EXCEPT ![c] = Len(users) + 1]
            /\ resp' = Response("redirect_home", "")

(* login(): lines 253-279 *)
Login(c, submitted, email, password, forgot) ==
    /\ req' = IF ~submitted
              THEN [kind |-> "login", client |-> c, submitted |-> FALSE]
              ELSE IF forgot
              THEN [kind |-> "login", client |-> c, submitted |-> TRUE,
                    forgot |-> TRUE]
              ELSE [kind |-> "login", client |-> c, submitted |-> TRUE,
                    forgot |-> FALSE, email |-> email, password |-> password]
    /\ UNCHANGED <<users, posts, comments>>
    /\ LET user == FindUserByEmail(email) IN
       IF ~submitted
       THEN /\ resp' = Response("render", "")
            /\ UNCHANGED session
       ELSE IF forgot
       THEN /\ resp' = Response("redirect_login", "Forgot password coming soon")
            /\ UNCHANGED session
       ELSE IF user = Anonymous
       THEN /\ resp' = Response("redirect_login", "Email does not exist")
            /\ UNCHANGED session
       ELSE IF ~CheckPasswordHash(users[user].password, password)
       THEN /\ resp' = Response("redirect_login", "Incorrect password")
            /\ UNCHANGED session
       ELSE /\ session' = [session EXCEPT ![c] = user]
            /\ resp' = Response("redirect_home", "")

(* faulty variant: logout answers but leaves the session in place *)
Logout_KeepsSession(c) ==
    /\ req' = [kind |-> "logout", client |-> c]
    /\ resp' = Response("redirect_home", "")
    /\ UNCHANGED <<users, posts, comments, session>>

(* logout(): lines 282-288 *)
Logout(c) ==
    /\ req' = [kind |-> "logout", client |-> c]
    /\ session' = [session EXCEPT ![c] = Anonymous]
    /\ resp' = Response("redirect_home", "")
    /\ UNCHANGED <<users, posts, comments>>

(* show_post(index): lines 119-151 *)
ShowPost(c, index, submitted, text) ==
    LET requested_post == IF index \in DOMAIN posts THEN index ELSE NULL IN
    /\ UNCHANGED <<users, posts, session>>
    /\ IF ~submitted
       THEN /\ req' = [kind |-> "show_post", client |-> c, submitted |-> FALSE,
                       index |-> index]
            /\ resp' = Response("render", "")
            /\ UNCHANGED comments
       ELSE /\ req' = [kind |-> "show_post", client |-> c, submitted |-> TRUE,
                       index |-> index, text |-> text]
            /\ IF ~IsAuthenticated(c)
               THEN /\ resp' = Response("redirect_login", "You need to login or register to comment")
                    /\ UNCHANGED comments
               ELSE /\ Len(comments) < MaxComments
                    /\ comments' = Append(comments,
                           [id |-> Len(comments) + 1, author_id |-> session[c],
                            post_id |-> requested_post, text |-> text])
                    /\ resp' = IF requested_post = NULL
                               THEN Response("error500", "AttributeError")
                               ELSE Response("redirect_post", "Successfully added the comment")

(* new_post(): lines 154-181 *)
NewPost(c, submitted, form, today) ==
    /\ UNCHANGED <<users, comments, session>>
    /\ IF ~IsAdmin(c)
       THEN /\ req' = [kind |-> "new_post", client |-> c]
            /\ resp' = Response("forbidden", "")
            /\ UNCHANGED posts
       ELSE IF ~submitted
       THEN /\ req' = [kind |-> "new_post", client |-> c, submitted |-> FALSE]
            /\ resp' = Response("render", "")
            /\ UNCHANGED posts
       ELSE /\ req' = [kind |-> "new_post", client |-> c, submitted |-> TRUE,
                       form |-> form]
            /\ resp' = Response("redirect_home", "")
            /\ IF TitleTaken(form.title, NULL)
               THEN UNCHANGED posts
               ELSE /\ NextPostId <= MaxPostId
                    /\ posts' = posts @@ (NextPostId :>
                           [id |-> NextPostId, author_id |-> session[c],
                            title |-> form.title, subtitle |-> form.subtitle,
                            date |-> today, body |-> form.body,
                            img_url |-> form.img_url])

(* edit_post(post_id): lines 184-200 *)
EditPost(c, post_id, submitted, form) ==
    /\ UNCHANGED <<users, comments, session>>
    /\ IF ~IsAdmin(c)
       THEN /\ req' = [kind |-> "edit_post", client |-> c, post_id |-> post_id]
            /\ resp' = Response("forbidden", "")
            /\ UNCHANGED posts
       ELSE IF ~submitted
       THEN /\ req' = [kind |-> "edit_post", client |-> c, post_id |-> post_id,
                       submitted |-> FALSE]
            /\ resp' = Response("render", "")
            /\ UNCHANGED posts
       ELSE /\ req' = [kind |-> "edit_post", client |-> c, post_id |-> post_id,
                       submitted |-> TRUE, form |-> form]
            /\ IF post_id \notin DOMAIN posts
               THEN /\ resp' = Response("error500", "AttributeError")
                    /\ UNCHANGED posts
               ELSE IF TitleTaken(form.title, post_id)
               THEN /\ resp' = Response("error500", "IntegrityError")
                    /\ UNCHANGED posts
               ELSE /\ posts' = [posts EXCEPT ![post_id] = PopulateObj(@, form)]
                    /\ resp' = Response("redirect_post", "")

(* db.session.delete(post): the relationship has no delete cascade, so the
   unit of work detaches each child comment by nulling its post_id *)
DetachComments(post_id) ==
    [i \in DOMAIN comments |->
        IF comments[i].post_id = post_id
        THEN [comments[i] EXCEPT !.post_id = NULL]
        ELSE comments[i]]

(* delete_post(post_id): lines 203-218 *)
DeletePost(c, post_id) ==
    /\ req' = [kind |-> "delete_post", client |-> c, post_id |-> post_id]
    /\ UNCHANGED <<users, session>>
    /\ IF ~IsAdmin(c)
       THEN /\ resp' = Response("forbidden", "")
            /\ UNCHANGED <<posts, comments>>
       ELSE IF post_id \notin DOMAIN posts
       THEN /\ resp' = Response("error500", "UnmappedInstanceError")
            /\ UNCHANGED <<posts, comments>>
       ELSE /\ posts' = [i \in DOMAIN posts \ {post_id} |-> posts[i]]
            /\ comments' = DetachComments(post_id)
            /\ resp' = Response("redirect_home", "")

(* a request that is not a validated form submission carries no form data *)
NoForm == CHOOSE f \in PostForms : TRUE
NoEmail == CHOOSE e \in Emails : TRUE
NoPassword == CHOOSE p \in Passwords : TRUE
NoName == CHOOSE n \in Names : TRUE
NoSalt == CHOOSE s \in Salts : TRUE
NoText == CHOOSE t \in Texts : TRUE
NoDate == CHOOSE d \in Dates : TRUE

Next ==
    \/ \E c \in Clients : Register(c, FALSE, NoName, NoEmail, NoPassword, NoSalt)
    \/ \E c \in Clients, n \in Names, e \in Emails, salt \in Salts :
          Register(c, TRUE, n, e, OwnPassword[e], salt)
    \/ \E c \in Clients : Login(c, FALSE, NoEmail, NoPassword, FALSE)
    \/ \E c \in Clients : Login(c, TRUE, NoEmail, NoPassword, TRUE)
    \/ \E c \in Clients, e \in Emails, p \in Passwords : Login(c, TRUE, e, p, FALSE)
    \/ \E c \in Clients : Logout(c)
    \/ \E c \in Clients, i \in PostIds : ShowPost(c, i, FALSE, NoText)
    \/ \E c \in Clients, i \in PostIds, t \in Texts : ShowPost(c, i, TRUE, t)
    \/ \E c \in Clients : NewPost(c, FALSE, NoForm, NoDate)
    \/ \E c \in Clients, f \in PostForms, d \in Dates : NewPost(c, TRUE, f, d)
    \/ \E c \in Clients, i \in PostIds : EditPost(c, i, FALSE, NoForm)
    \/ \E c \in Clients, i \in PostIds, f \in PostForms : EditPost(c, i, TRUE, f)
    \/ \E c \in Clients, i \in PostIds : DeletePost(c, i)

(* ======================= properties ======================= *)

GatedKinds == {"new_post", "edit_post", "delete_post"}

(* the principal on whose behalf the step's request was made *)
Principal == session[req'.client]

PrincipalIsAdmin == Principal # Anonymous /\ Principal \in DOMAIN users /\ Principal = AdminId

Verifies(pwhash, password) == GeneratePasswordHash(password, pwhash.salt) = pwhash

(* C1: when the admin's delete of an existing post P completes, P is gone and
   no comment row that was attached to P remains in the comments table. *)
C1_DeleteRemovesComments ==
    [][(req'.kind = "delete_post" /\ PrincipalIsAdmin /\ req'.post_id \in DOMAIN posts)
        => /\ req'.post_id \notin DOMAIN posts'
           /\ \A i \in DOMAIN comments :
                 comments[i].post_id = req'.post_id
                    => ~\E j \in DOMAIN comments' : comments'[j].id = comments[i].id]_vars

(* C2: a new-post, edit-post or delete request by anyone but the authenticated
   user with id 1 is forbidden and leaves the three tables unchanged; whoever
   passes the gate is the first registered user, whose row never changes. *)
C2_AdminGate ==
    [][/\ (req'.kind \in GatedKinds /\ ~PrincipalIsAdmin)
            => (resp'.status = "forbidden" /\ tables' = tables)
       /\ (req'.kind \in GatedKinds /\ resp'.status # "forbidden")
            => (Principal = AdminId /\ Head(users).id = Principal)
       /\ (Len(users) > 0) => (Len(users') > 0 /\ Head(users') = Head(users))]_vars

C2_Witness ==
    /\ req.kind = "delete_post"
    /\ resp.status = "forbidden"
    /\ session[req.client] = 2
    /\ req.post_id \in DOMAIN posts

(* C3: user emails are pairwise distinct in every state; a registration with
   an email that an existing user has yields the notice and the redirect to
   login and leaves the users table and the current principal unchanged. *)
EmailsDistinct ==
    \A i, j \in DOMAIN users : users[i].email = users[j].email => i = j

C4_AnonymousComment ==
    [][(req'.kind = "show_post" /\ Principal = Anonymous)
        => /\ comments' = comments
           /\ req'.submitted => resp'.status = "redirect_login"]_vars

C4_Witness ==
    /\ req.kind = "show_post"
    /\ req.submitted
    /\ session[req.client] = Anonymous
    /\ resp.status = "redirect_login"
    /\ req.index \in DOMAIN posts

(* C5: the principal becomes user u only at a login whose password verifies
   against u's stored credential or at the registration that creates u; a
   login with an unknown email or a wrong password leaves the principal as
   it was. *)
C5_SessionEstablishment ==
    [][/\ \A c \in Clients :
            (session'[c] # session[c] /\ session'[c] # Anonymous)
               => /\ req'.client = c
                  /\ req'.submitted
                  /\ \/ /\ req'.kind = "login"
                        /\ ~req'.forgot
                        /\ session'[c] \in DOMAIN users
                        /\ users[session'[c]].email = req'.email
                        /\ Verifies(users[session'[c]].password, req'.password)
                     \/ /\ req'.kind = "register"
                        /\ session'[c] \notin DOMAIN users
                        /\ session'[c] \in DOMAIN users'
                        /\ users'[session'[c]].email = req'.email
       /\ (req'.kind = "login" /\ req'.submitted /\ ~req'.forgot
            /\ ~\E i \in DOMAIN users :
                  /\ users[i].email = req'.email
                  /\ Verifies(users[i].password, req'.password))
           => (session' = session /\ resp'.status = "redirect_login")]_vars

C5_Witness ==
    /\ req.kind = "login"
    /\ req.submitted
    /\ resp.notice = "Incorrect password"
    /\ session[req.client] = Anonymous
    /\ \E i \in DOMAIN users : users[i].email = req.email

(* C6: in every state each comment references one existing user and one
   existing post. *)
C6_CommentReferences ==
    \A i \in DOMAIN comments :
        /\ comments[i].author_id \in DOMAIN users
        /\ comments[i].post_id \in DOMAIN posts

(* C7: an admin edit or delete of a post id with no row yields a not-found
   response, never an uncaught exception, and leaves the store unchanged. *)
C7_MissingPostNotFound ==
    [][(req'.kind \in {"edit_post", "delete_post"} /\ PrincipalIsAdmin
         /\ req'.post_id \notin DOMAIN posts)
        => (resp'.status = "not_found" /\ tables' = tables)]_vars

(* C8: an admin create or edit whose title is the title of a different
   existing post yields a response rather than an uncaught storage exception
   and leaves the posts table unchanged; titles stay pairwise distinct. *)
TitlesDistinct ==
    \A i, j \in DOMAIN posts : posts[i].title = posts[j].title => i = j

C8_DuplicateTitleHandled ==
    /\ []TitlesDistinct
    /\ [][(/\ req'.kind \in {"new_post", "edit_post"}
           /\ PrincipalIsAdmin
           /\ req'.submitted
           /\ req'.kind = "edit_post" => req'.post_id \in DOMAIN posts
           /\ \E i \in DOMAIN posts :
                 /\ posts[i].title = req'.form.title
                 /\ req'.kind = "edit_post" => i # req'.post_id)
          => (resp'.status # "error500" /\ posts' = posts)]_vars

(* C9: logout leaves the principal Anonymous with a redirect, also when it
   was Anonymous already; an Anonymous principal stays Anonymous until a
   successful login or registration, and meanwhile every admin-gated request
   is forbidden and every submitted comment is redirected to login. *)
C9_LogoutAnonymous ==
    [][/\ req'.kind = "logout"
            => /\ session'[req'.client] = Anonymous
               /\ resp'.status = "redirect_home"
               /\ tables' = tables
       /\ \A c \in Clients :
            (session[c] = Anonymous /\ session'[c] # Anonymous)
               => /\ req'.client = c
                  /\ req'.kind \in {"login", "register"}
                  /\ req'.submitted
                  /\ resp'.status = "redirect_home"
       /\ (Principal = Anonymous /\ req'.kind \in GatedKinds)
            => resp'.status = "forbidden"
       /\ (Principal = Anonymous /\ req'.kind = "show_post" /\ req'.submitted)
            => resp'.status = "redirect_login"]_vars

(* no user exists yet, so the principal that logged out was Anonymous *)
C9_Witness ==
    /\ req.kind = "logout"
    /\ session[req.client] = Anonymous
    /\ resp.status = "redirect_home"
    /\ Len(users) = 0

(* C10: a successful admin edit of post P replaces P's title, subtitle, body
   and image URL by the submitted values and leaves P's id, author and date,
   the comments, every other post and the users table unchanged. *)
C10_EditFrame ==
    [][(req'.kind = "edit_post" /\ PrincipalIsAdmin /\ req'.submitted
         /\ resp'.status = "redirect_post")
        => LET p == req'.post_id
               f == req'.form
           IN /\ p \in DOMAIN posts
              /\ DOMAIN posts' = DOMAIN posts
              /\ posts'[p].title = f.title
              /\ posts'[p].subtitle = f.subtitle
              /\ posts'[p].body = f.body
              /\ posts'[p].img_url = f.img_url
              /\ posts'[p].id = posts[p].id
              /\ posts'[p].author_id = posts[p].author_id
              /\ posts'[p].date = posts[p].date
              /\ \A q \in DOMAIN posts \ {p} : posts'[q] = posts[q]
              /\ comments' = comments
              /\ users' = users]_vars

C10_Witness ==
    /\ req.kind = "edit_post"
    /\ resp.status = "redirect_post"
    /\ Cardinality(DOMAIN posts) = 2
    /\ \E q \in DOMAIN posts : posts[q].date # posts[req.post_id].date
    /\ posts[req.post_id].title = "t1"
    /\ posts[req.post_id].subtitle = "sub1"
    /\ \E i \in DOMAIN comments : comments[i].post_id = req.post_id

Spec == Init /\ [][Next]_vars
====
